---- MODULE Spec2Model ----
(***************************************************************************)
(* A model of the CrossCompileCppExample sources:                          *)
(*   include/utils.hpp  parse_number and the NumberResult accessors,       *)
(*                      Container<T>::add / contains                       *)
(*   src/main.cpp       ModernCppDemo (add_if_not_exists, transform_all,   *)
(*                      get_at) as driven by main                          *)
(* A text handed to parse_number is a sequence of one-character strings;   *)
(* the strings stored by ModernCppDemo are TLA+ strings.  C++ indices are  *)
(* 0-based, TLA+ sequences 1-based: data[i] of the code is data[i + 1].    *)
(***************************************************************************)
EXTENDS Integers, Sequences, FiniteSets, TLC

VARIABLES input, result, call, container, adds, demo

vars == <<input, result, call, container, adds, demo>>

(***************************************************************************)
(* Bounds of the model.                                                    *)
(***************************************************************************)
\* Characters appended to a seed text to form an input of parse_number.
MaxSuffix == 3
\* add calls made on one Container.
MaxAdds == 4
\* Elements a ModernCppDemo list may grow to.
MaxSize == 4
\* Length a string stored in the ModernCppDemo list may grow to.
MaxStrLen == 13
\* Largest index handed to get_at.
MaxIndex == 10

(***************************************************************************)
(* int of the target: 32 bits, two's complement.                           *)
(***************************************************************************)
INT_MAX == 2147483647

INT_MIN == -INT_MAX - 1

IntValues == {INT_MIN, -1, 0, 1, 42, INT_MAX}

(***************************************************************************)
(* Characters.                                                             *)
(***************************************************************************)
DigitChars == <<"0", "1", "2", "3", "4", "5", "6", "7", "8", "9">>

IsDigit(c) == \E k \in 1..10 : DigitChars[k] = c

DigitVal(c) == (CHOOSE k \in 1..10 : DigitChars[k] = c) - 1

IsSign(c) == c \in {"+", "-"}

\* std::isspace in the "C" locale.
IsSpace(c) == c \in {" ", "\t", "\n", "\r", "\f"}

(***************************************************************************)
(* std::stoi(input, &pos), base 10, as parse_number calls it: strtol's     *)
(* scan (white space, an optional sign, the longest run of digits) and     *)
(* stoi's checks.  The digits are accumulated as a non-positive number so  *)
(* that INT_MIN is reached without overflow; a value that leaves the range *)
(* of int is reported whether strtol (ERANGE) or stoi's range check finds  *)
(* it: both throw std::out_of_range.                                       *)
(***************************************************************************)
RECURSIVE SkipSpace(_, _)
SkipSpace(str, i) ==
    IF i <= Len(str) /\ IsSpace(str[i]) THEN SkipSpace(str, i + 1) ELSE i

RECURSIVE ScanDigits(_, _, _, _, _)
ScanDigits(str, i, acc, overflow, limit) ==
    IF i <= Len(str) /\ IsDigit(str[i])
    THEN LET d == DigitVal(str[i])
             fits == ~overflow /\ acc >= (limit + d + 9) \div 10
         IN  ScanDigits(str, i + 1, IF fits THEN acc * 10 - d ELSE acc,
                        ~fits, limit)
    ELSE [end |-> i, acc |-> acc, overflow |-> overflow]

stoi(str) ==
    LET i     == SkipSpace(str, 1)
        neg   == i <= Len(str) /\ str[i] = "-"
        j     == IF i <= Len(str) /\ IsSign(str[i]) THEN i + 1 ELSE i
        limit == IF neg THEN INT_MIN ELSE -INT_MAX
        scan  == ScanDigits(str, j, 0, FALSE, limit)
    IN  IF scan.end = j
        THEN [thrown |-> "std::invalid_argument", value |-> 0, pos |-> 0]
        ELSE IF scan.overflow
        THEN [thrown |-> "std::out_of_range", value |-> 0, pos |-> 0]
        ELSE [thrown |-> "none",
              value  |-> IF neg THEN scan.acc ELSE -scan.acc,
              pos    |-> scan.end - 1]

(***************************************************************************)
(* utils::NumberResult = std::pair<int, std::string>.                      *)
(***************************************************************************)
NumberResult(v, e) == [first |-> v, second |-> e]

NotAllUsed == "Not all characters were used in conversion"

InvalidArgument == "Invalid argument"

OutOfRange == "Out of range"

(***************************************************************************)
(* utils::parse_number: what it returns and the exception that leaves it   *)
(* ("none" when it returns).  Only std::invalid_argument and               *)
(* std::out_of_range are caught.                                           *)
(***************************************************************************)
\* Mutant: the test of pos is inverted.
parse_number_inverted(str) ==
    LET c == stoi(str)
    IN  IF c.thrown = "std::invalid_argument"
        THEN [ret |-> NumberResult(0, InvalidArgument), thrown |-> "none"]
        ELSE IF c.thrown = "std::out_of_range"
        THEN [ret |-> NumberResult(0, OutOfRange), thrown |-> "none"]
        ELSE IF c.thrown # "none"
        THEN [ret |-> NumberResult(0, ""), thrown |-> c.thrown]
        ELSE IF c.pos = Len(str)
        THEN [ret |-> NumberResult(0, NotAllUsed), thrown |-> "none"]
        ELSE [ret |-> NumberResult(c.value, ""), thrown |-> "none"]

\* Mutant: the test of pos is missing, the converted prefix is returned.
parse_number_prefix(str) ==
    LET c == stoi(str)
    IN  IF c.thrown = "std::invalid_argument"
        THEN [ret |-> NumberResult(0, InvalidArgument), thrown |-> "none"]
        ELSE IF c.thrown = "std::out_of_range"
        THEN [ret |-> NumberResult(0, OutOfRange), thrown |-> "none"]
        ELSE IF c.thrown # "none"
        THEN [ret |-> NumberResult(0, ""), thrown |-> c.thrown]
        ELSE [ret |-> NumberResult(c.value, ""), thrown |-> "none"]

\* Mutant: the two handlers' messages are exchanged.
parse_number_swapped(str) ==
    LET c == stoi(str)
    IN  IF c.thrown = "std::invalid_argument"
        THEN [ret |-> NumberResult(0, OutOfRange), thrown |-> "none"]
        ELSE IF c.thrown = "std::out_of_range"
        THEN [ret |-> NumberResult(0, InvalidArgument), thrown |-> "none"]
        ELSE IF c.thrown # "none"
        THEN [ret |-> NumberResult(0, ""), thrown |-> c.thrown]
        ELSE IF c.pos # Len(str)
        THEN [ret |-> NumberResult(0, NotAllUsed), thrown |-> "none"]
        ELSE [ret |-> NumberResult(c.value, ""), thrown |-> "none"]

\* Mutant: one handler catches both exceptions and reports the first message.
parse_number_onehandler(str) ==
    LET c == stoi(str)
    IN  IF c.thrown \in {"std::invalid_argument", "std::out_of_range"}
        THEN [ret |-> NumberResult(0, OutOfRange), thrown |-> "none"]
        ELSE IF c.thrown # "none"
        THEN [ret |-> NumberResult(0, ""), thrown |-> c.thrown]
        ELSE IF c.pos # Len(str)
        THEN [ret |-> NumberResult(0, NotAllUsed), thrown |-> "none"]
        ELSE [ret |-> NumberResult(c.value, ""), thrown |-> "none"]

\* Mutant: the handler of std::out_of_range is missing.
parse_number_nocatch(str) ==
    LET c == stoi(str)
    IN  IF c.thrown = "std::invalid_argument"
        THEN [ret |-> NumberResult(0, InvalidArgument), thrown |-> "none"]
        ELSE IF c.thrown # "none"
        THEN [ret |-> NumberResult(0, ""), thrown |-> c.thrown]
        ELSE IF c.pos # Len(str)
        THEN [ret |-> NumberResult(0, NotAllUsed), thrown |-> "none"]
        ELSE [ret |-> NumberResult(c.value, ""), thrown |-> "none"]

parse_number(str) ==
    LET c == stoi(str)
    IN  IF c.thrown = "std::invalid_argument"
        THEN [ret |-> NumberResult(0, InvalidArgument), thrown |-> "none"]
        ELSE IF c.thrown = "std::out_of_range"
        THEN [ret |-> NumberResult(0, OutOfRange), thrown |-> "none"]
        ELSE IF c.thrown # "none"
        THEN [ret |-> NumberResult(0, ""), thrown |-> c.thrown]
        ELSE IF c.pos # Len(str)
        THEN [ret |-> NumberResult(0, NotAllUsed), thrown |-> "none"]
        ELSE [ret |-> NumberResult(c.value, ""), thrown |-> "none"]

(***************************************************************************)
(* The accessors of a NumberResult.                                        *)
(***************************************************************************)
has_error(r) == r.second # ""

get_error(r) == r.second

\* Mutant: a failed result yields the sentinel 0 instead of throwing.
get_value_sentinel(r) ==
    IF has_error(r)
    THEN [ret |-> 0, thrown |-> "none"]
    ELSE [ret |-> r.first, thrown |-> "none"]

get_value(r) ==
    IF has_error(r)
    THEN [ret |-> 0, thrown |-> "std::runtime_error"]
    ELSE [ret |-> r.first, thrown |-> "none"]

(***************************************************************************)
(* utils::Container<T>.                                                    *)
(***************************************************************************)
Container == [data |-> <<>>]

add(c, value) == [c EXCEPT !.data = Append(@, value)]

\* The loop of contains, from index i of the code on.
RECURSIVE contains_loop(_, _, _)
contains_loop(data, value, i) ==
    IF i < Len(data)
    THEN IF data[i + 1] = value
         THEN <<TRUE, i>>
         ELSE contains_loop(data, value, i + 1)
    ELSE <<FALSE, 0>>

\* Mutant: the loop starts at index 1.
contains_from1(c, value) == contains_loop(c.data, value, 1)

contains(c, value) == contains_loop(c.data, value, 0)

(***************************************************************************)
(* ModernCppDemo of main.cpp.                                              *)
(***************************************************************************)
ModernCppDemo(init) == [data |-> init]

\* std::find(data.begin(), data.end(), item) from iterator begin() + i on,
\* as a distance from begin(); Len(data) is end().
RECURSIVE find(_, _, _)
find(data, item, i) ==
    IF i < Len(data) /\ data[i + 1] # item THEN find(data, item, i + 1) ELSE i

\* Mutant: the size after push_back is returned, not size - 1.
add_if_not_exists_size(d, item) ==
    LET it == find(d.data, item, 0)
    IN  IF it = Len(d.data)
        THEN LET pushed == Append(d.data, item)
             IN  [obj |-> [d EXCEPT !.data = pushed],
                  ret |-> <<Len(pushed), TRUE>>]
        ELSE [obj |-> d, ret |-> <<it, FALSE>>]

add_if_not_exists(d, item) ==
    LET it == find(d.data, item, 0)
    IN  IF it = Len(d.data)
        THEN LET pushed == Append(d.data, item)
             IN  [obj |-> [d EXCEPT !.data = pushed],
                  ret |-> <<Len(pushed) - 1, TRUE>>]
        ELSE [obj |-> d, ret |-> <<it, FALSE>>]

\* Mutant: the lambda returns item + prefix.
transform_all_suffix(d, prefix) ==
    [d EXCEPT !.data = [i \in 1..Len(d.data) |-> d.data[i] \o prefix]]

transform_all(d, prefix) ==
    [d EXCEPT !.data = [i \in 1..Len(d.data) |-> prefix \o d.data[i]]]

nullopt == [has_value |-> FALSE, value |-> ""]

\* Mutant: the test is index + 1 < data.size().
get_at_short(d, index) ==
    IF index + 1 < Len(d.data)
    THEN [has_value |-> TRUE, value |-> d.data[index + 1]]
    ELSE nullopt

get_at(d, index) ==
    IF index < Len(d.data)
    THEN [has_value |-> TRUE, value |-> d.data[index + 1]]
    ELSE nullopt

(***************************************************************************)
(* Inputs.                                                                 *)
(***************************************************************************)
Alphabet == {"0", "7", "8", "9", "+", "-", " ", "a"}

\* The texts over Alphabet of length at most n.
RECURSIVE Texts(_)
Texts(n) ==
    IF n = 0 THEN {<<>>}
    ELSE LET T == Texts(n - 1)
         IN  T \cup {Append(t, c) : t \in {s \in T : Len(s) = n - 1},
                                    c \in Alphabet}

\* Texts that bring the suffixes to the limits of int, and a 29-digit one.
Seeds ==
    { <<>>,
      <<"2", "1", "4", "7", "4", "8", "3", "6", "4">>,
      <<"-", "2", "1", "4", "7", "4", "8", "3", "6", "4">>,
      [i \in 1..29 |-> "9"] }

Inputs == {s \o t : s \in Seeds, t \in Texts(MaxSuffix)}

ErrorTexts == {"", InvalidArgument, OutOfRange, NotAllUsed, "disk full"}

\* The NumberResult values a caller may hold: any pair.
CallerResults == {NumberResult(v, e) : v \in IntValues, e \in ErrorTexts}

Values == {"a", "b", "c"}

Items == {"apple", "date", "fruit: date"}

Prefixes == {"fruit: ", "a "}

InitLists == { <<>>,
               <<"apple", "banana", "cherry">>,
               <<"fig", "apple", "fig">> }

NoCall == [op |-> "none", arg |-> <<>>, ret |-> <<>>, thrown |-> "none"]

(***************************************************************************)
(* Operations on a NumberResult.                                           *)
(***************************************************************************)
ParseNumber ==
    LET c == parse_number(input)
    IN  /\ result' = IF c.thrown = "none" THEN c.ret ELSE result
        /\ call' = [op |-> "parse_number", arg |-> input, ret |-> c.ret,
                    thrown |-> c.thrown]
        /\ UNCHANGED <<input, container, adds, demo>>

HasError ==
    /\ call' = [op |-> "has_error", arg |-> result, ret |-> has_error(result),
                thrown |-> "none"]
    /\ UNCHANGED <<input, result, container, adds, demo>>

GetError ==
    /\ call' = [op |-> "get_error", arg |-> result, ret |-> get_error(result),
                thrown |-> "none"]
    /\ UNCHANGED <<input, result, container, adds, demo>>

GetValue ==
    LET c == get_value(result)
    IN  /\ call' = [op |-> "get_value", arg |-> result, ret |-> c.ret,
                    thrown |-> c.thrown]
        /\ UNCHANGED <<input, result, container, adds, demo>>

(***************************************************************************)
(* Operations on a Container.  adds is the history of the add calls.       *)
(***************************************************************************)
Add(value) ==
    /\ Len(adds) < MaxAdds
    /\ container' = add(container, value)
    /\ adds' = Append(adds, value)
    /\ call' = [op |-> "add", arg |-> value, ret |-> <<>>, thrown |-> "none"]
    /\ UNCHANGED <<input, result, demo>>

Contains(value) ==
    /\ call' = [op |-> "contains", arg |-> value,
                ret |-> contains(container, value), thrown |-> "none"]
    /\ UNCHANGED <<input, result, container, adds, demo>>

(***************************************************************************)
(* Operations on a ModernCppDemo.                                          *)
(***************************************************************************)
AddIfNotExists(item) ==
    LET c == add_if_not_exists(demo, item)
    IN  /\ Len(c.obj.data) <= MaxSize
        /\ demo' = c.obj
        /\ call' = [op |-> "add_if_not_exists", arg |-> item, ret |-> c.ret,
                    thrown |-> "none"]
        /\ UNCHANGED <<input, result, container, adds>>

TransformAll(prefix) ==
    /\ \A i \in 1..Len(demo.data) :
          Len(prefix) + Len(demo.data[i]) <= MaxStrLen
    /\ demo' = transform_all(demo, prefix)
    /\ call' = [op |-> "transform_all", arg |-> prefix, ret |-> <<>>,
                thrown |-> "none"]
    /\ UNCHANGED <<input, result, container, adds>>

GetAt(index) ==
    /\ call' = [op |-> "get_at", arg |-> index, ret |-> get_at(demo, index),
                thrown |-> "none"]
    /\ UNCHANGED <<input, result, container, adds, demo>>

(***************************************************************************)
(* Specifications.                                                         *)
(***************************************************************************)
\* parse_number applied to an input.
InitParser ==
    /\ input \in Inputs
    /\ result = NumberResult(0, "")
    /\ call = NoCall
    /\ container = Container
    /\ adds = <<>>
    /\ demo = ModernCppDemo(<<>>)

NextParser == ParseNumber

SpecParser == InitParser /\ [][NextParser]_vars

\* The accessors applied to any NumberResult.
InitResult ==
    /\ input = <<>>
    /\ result \in CallerResults
    /\ call = NoCall
    /\ container = Container
    /\ adds = <<>>
    /\ demo = ModernCppDemo(<<>>)

NextResult == HasError \/ GetError \/ GetValue

SpecResult == InitResult /\ [][NextResult]_vars

\* A Container, created empty.
InitContainer ==
    /\ input = <<>>
    /\ result = NumberResult(0, "")
    /\ call = NoCall
    /\ container = Container
    /\ adds = <<>>
    /\ demo = ModernCppDemo(<<>>)

NextContainer ==
    \/ \E value \in Values : Add(value)
    \/ \E value \in Values : Contains(value)

SpecContainer == InitContainer /\ [][NextContainer]_vars

\* A ModernCppDemo, constructed from an initializer list.
InitDemo ==
    /\ input = <<>>
    /\ result = NumberResult(0, "")
    /\ call = NoCall
    /\ container = Container
    /\ adds = <<>>
    /\ \E init \in InitLists : demo = ModernCppDemo(init)

NextDemo ==
    \/ \E item \in Items : AddIfNotExists(item)
    \/ \E prefix \in Prefixes : TransformAll(prefix)
    \/ \E index \in 0..MaxIndex : GetAt(index)

SpecDemo == InitDemo /\ [][NextDemo]_vars

(***************************************************************************)
(* What a text denotes, read off the text itself: the decimal numeral of   *)
(* an integer is produced digit by digit and compared with the text, and   *)
(* the range of int is decided on the numerals, without converting.        *)
(***************************************************************************)
RECURSIVE StripSpaces(_)
StripSpaces(s) ==
    IF s # <<>> /\ IsSpace(Head(s)) THEN StripSpaces(Tail(s)) ELSE s

RECURSIVE StripZeros(_)
StripZeros(s) ==
    IF s # <<>> /\ Head(s) = "0" THEN StripZeros(Tail(s)) ELSE s

\* The numeral of -m, for m <= 0 (the empty numeral for 0).
RECURSIVE Numeral(_)
Numeral(m) ==
    IF m = 0 THEN <<>>
    ELSE LET d == (10 - (m % 10)) % 10
         IN  Append(Numeral((m + d) \div 10), DigitChars[d + 1])

\* An optional sign followed by one or more digits, and nothing else.
SignedDigits(s) ==
    /\ s # <<>>
    /\ LET body == IF IsSign(s[1]) THEN Tail(s) ELSE s
       IN  body # <<>> /\ \A i \in 1..Len(body) : IsDigit(body[i])

IsNegative(s) == s[1] = "-"

\* The digits of a SignedDigits text, leading zeros dropped.
Magnitude(s) == StripZeros(IF IsSign(s[1]) THEN Tail(s) ELSE s)

\* Numerals without leading zeros: a <= b as numbers.
NumeralLeq(a, b) ==
    \/ Len(a) < Len(b)
    \/ /\ Len(a) = Len(b)
       /\ \A i \in 1..Len(a) :
             (\A j \in 1..(i - 1) : a[j] = b[j])
                 => DigitVal(a[i]) <= DigitVal(b[i])

\* The value of a SignedDigits text lies in INT_MIN..INT_MAX.
InRange(s) ==
    NumeralLeq(Magnitude(s),
               Numeral(IF IsNegative(s) THEN INT_MIN ELSE -INT_MAX))

\* The SignedDigits text s denotes the integer n of INT_MIN..INT_MAX.
Denotes(s, n) ==
    /\ Magnitude(s) = Numeral(IF n > 0 THEN -n ELSE n)
    /\ n < 0 => IsNegative(s)
    /\ n > 0 => ~IsNegative(s)

\* The first k characters of s are white space and then a SignedDigits
\* text, and no digit follows them.
NumericPrefix(s, k) ==
    /\ k \in 1..Len(s)
    /\ SignedDigits(StripSpaces(SubSeq(s, 1, k)))
    /\ k < Len(s) => ~IsDigit(s[k + 1])

PrefixText(s, k) == StripSpaces(SubSeq(s, 1, k))

Parsed == call.op = "parse_number"

Returned(v, e) ==
    /\ call.thrown = "none"
    /\ call.ret = NumberResult(v, e)
    /\ result = call.ret

(***************************************************************************)
(* C1.  After any sequence of add calls on an empty Container, contains(v) *)
(* returns (true, i) with i the 0-based position of the earliest add call  *)
(* whose value is v, and (false, 0) when no add call had the value v; the  *)
(* container's sequence is the sequence of the added values, which         *)
(* contains leaves as it is.                                               *)
(***************************************************************************)
C1_ContainsFirstIndex ==
    /\ container.data = adds
    /\ call.op = "contains" =>
          LET hits == {i \in 1..Len(adds) : adds[i] = call.arg}
          IN  IF hits = {}
              THEN call.ret = <<FALSE, 0>>
              ELSE \E i \in hits :
                      /\ \A j \in hits : i <= j
                      /\ call.ret = <<TRUE, i - 1>>

C1_Witness ==
    /\ call.op = "contains"
    /\ call.ret = <<TRUE, 1>>
    /\ Len(adds) = 4
    /\ adds[4] = call.arg

(***************************************************************************)
(* C2.  For an input that is an optional sign followed by one or more      *)
(* digits and whose value lies in the range of int, parse_number returns   *)
(* that integer with an empty error text.                                  *)
(***************************************************************************)
C2_ParsesSignedDigits ==
    (Parsed /\ SignedDigits(input) /\ InRange(input)) =>
        /\ call.thrown = "none"
        /\ call.ret.second = ""
        /\ result = call.ret
        /\ Denotes(input, call.ret.first)

C2_Witness ==
    /\ Parsed
    /\ input = <<"-", "2", "1", "4", "7", "4", "8", "3", "6", "4", "8">>
    /\ result = NumberResult(INT_MIN, "")

(***************************************************************************)
(* C3, as claimed.  For an input with a non-numeric character after a      *)
(* valid numeric prefix, parse_number fails with "Not all characters were  *)
(* used in conversion".                                                    *)
(***************************************************************************)
C3_TrailingAlwaysNotAllUsed ==
    Parsed =>
        \A k \in 1..(Len(input) - 1) :
            NumericPrefix(input, k) => Returned(0, NotAllUsed)

(***************************************************************************)
(* C3, amended.  For an input with a non-numeric character after a valid   *)
(* numeric prefix whose value lies in the range of int, parse_number fails *)
(* with "Not all characters were used in conversion" and value 0, not the  *)
(* value of the prefix.                                                    *)
(***************************************************************************)
C3_TrailingInRangeNotAllUsed ==
    Parsed =>
        \A k \in 1..(Len(input) - 1) :
            (NumericPrefix(input, k) /\ InRange(PrefixText(input, k)))
                => Returned(0, NotAllUsed)

C3_Witness ==
    /\ Parsed
    /\ input = <<"2", "1", "4", "7", "4", "8", "3", "6", "4", "7", "a">>
    /\ result = NumberResult(0, NotAllUsed)

(***************************************************************************)
(* C4.  For an input whose numeric text (white space, an optional sign,    *)
(* digits, up to the first character that is no digit) has a value outside *)
(* the range of int, parse_number fails with "Out of range".               *)
(***************************************************************************)
C4_OutOfRange ==
    Parsed =>
        \A k \in 1..Len(input) :
            (NumericPrefix(input, k) /\ ~InRange(PrefixText(input, k)))
                => Returned(0, OutOfRange)

C4_Witness ==
    /\ Parsed
    /\ input = [i \in 1..30 |-> "9"]
    /\ result = NumberResult(0, OutOfRange)

(***************************************************************************)
(* C5.  For the empty input and for an input made only of characters that  *)
(* are neither digits nor signs, parse_number fails with "Invalid          *)
(* argument".                                                              *)
(***************************************************************************)
C5_InvalidArgument ==
    (Parsed /\ \A i \in 1..Len(input) :
                  ~IsDigit(input[i]) /\ ~IsSign(input[i]))
        => Returned(0, InvalidArgument)

C5_Witness ==
    /\ Parsed
    /\ input = <<"a", " ", "a">>
    /\ result = NumberResult(0, InvalidArgument)

(***************************************************************************)
(* C6.  parse_number returns for every input, no exception leaves it, and  *)
(* what it returns has an empty error text, or one of the three messages   *)
(* and the value 0.                                                        *)
(***************************************************************************)
C6_ResultVocabulary ==
    Parsed =>
        /\ call.thrown = "none"
        /\ result = call.ret
        /\ \/ call.ret.second = ""
           \/ /\ call.ret.second \in {InvalidArgument, OutOfRange, NotAllUsed}
              /\ call.ret.first = 0

C6_Witness ==
    /\ Parsed
    /\ input = <<"-", "2", "1", "4", "7", "4", "8", "3", "6", "4", "9">>
    /\ call.thrown = "none"
    /\ result = NumberResult(0, OutOfRange)

(***************************************************************************)
(* C7.  For every NumberResult r: has_error(r) is true exactly when the    *)
(* error text of r is not empty; get_value(r) throws exactly when the      *)
(* error text is not empty and otherwise returns the stored value;         *)
(* get_error(r) returns the stored error text.  None of them changes r.    *)
(***************************************************************************)
C7_Accessors ==
    /\ call.op \in {"has_error", "get_error", "get_value"} => call.arg = result
    /\ call.op = "has_error" =>
          /\ call.thrown = "none"
          /\ call.ret <=> (result.second # "")
    /\ call.op = "get_error" =>
          /\ call.thrown = "none"
          /\ call.ret = result.second
    /\ call.op = "get_value" =>
          IF result.second # ""
          THEN call.thrown = "std::runtime_error"
          ELSE call.thrown = "none" /\ call.ret = result.first

C7_Witness ==
    /\ call.op = "get_value"
    /\ result = NumberResult(42, "disk full")
    /\ call.thrown = "std::runtime_error"

C9_TransformAll ==
    [][call'.op = "transform_all" =>
          /\ call'.thrown = "none"
          /\ Len(demo'.data) = Len(demo.data)
          /\ \A i \in 1..Len(demo.data) :
                demo'.data[i] = call'.arg \o demo.data[i]
          /\ (/\ demo.data = <<"apple", "banana", "cherry", "date">>
              /\ call'.arg = "fruit: ")
                => demo'.data = <<"fruit: apple", "fruit: banana",
                                  "fruit: cherry", "fruit: date">>
    ]_vars

C9_Witness ==
    /\ call.op = "transform_all"
    /\ call.arg = "fruit: "
    /\ demo.data = <<"fruit: apple", "fruit: banana", "fruit: cherry",
                     "fruit: date">>

(***************************************************************************)
(* C10.  get_at(n) returns, throws nothing and leaves the list as it is:   *)
(* it returns the element at n when n is less than the length of the list  *)
(* and std::nullopt otherwise.  On [fruit: apple, fruit: banana,           *)
(* fruit: cherry, fruit: date], get_at(1) is "fruit: banana" and           *)
(* get_at(10) is absent.                                                   *)
(***************************************************************************)
C10_GetAt ==
    [][call'.op = "get_at" =>
          LET n == call'.arg
          IN  /\ call'.thrown = "none"
              /\ demo' = demo
              /\ call'.ret.has_value <=> n < Len(demo.data)
              /\ call'.ret.has_value => call'.ret.value = demo.data[n + 1]
              /\ ~call'.ret.has_value => call'.ret = nullopt
              /\ (/\ demo.data = <<"fruit: apple", "fruit: banana",
                                   "fruit: cherry", "fruit: date">>
                  /\ n = 1)
                    => call'.ret = [has_value |-> TRUE,
                                    value |-> "fruit: banana"]
    ]_vars

C10_Witness ==
    /\ call.op = "get_at"
    /\ call.arg = 10
    /\ call.ret = nullopt
    /\ demo.data = <<"fruit: apple", "fruit: banana", "fruit: cherry",
                     "fruit: date">>

====
